---- MODULE Spec2Model ----
(***************************************************************************)
(* Model of src/src/github.ts: the release reconciler `release` and the    *)
(* asset uploader `upload`, run against a release service that keeps a     *)
(* list of releases, the tag ref and the assets of one release.            *)
(*                                                                         *)
(* JavaScript values are encoded as strings: the booleans are "true" and   *)
(* "false", undefined is "undefined", null is "null"; every other string   *)
(* is itself.  Strings are concatenated with \o.                           *)
(***************************************************************************)
EXTENDS Integers, Sequences, FiniteSets, TLC

VARIABLES
    config,           \* the Config of the run (immutable)
    releases,         \* service: the releases of the repository, in list order
    releases0,        \* the releases when the first run started (history)
    tagRef,           \* service: sha of refs/tags/<tag>, "" when the ref is absent
    pc,               \* per reconciler: position in release()
    retries,          \* per reconciler: the maxRetries argument of the current call
    page,             \* per reconciler: page of allReleases being fetched
    existingRelease,  \* per reconciler: local existingRelease
    result,           \* per reconciler: what release() returned or threw
    calls,            \* client calls of the current run, in order (history)
    run,              \* number of the current run of reconciler 1
    prev,             \* result and releases at the end of the previous run (history)
    assets,           \* service: the assets of the release uploaded to
    currentAssets,    \* upload(): argument currentAssets
    path,             \* upload(): basename of argument path
    upc,              \* upload(): position
    ucalls,           \* upload(): requests and responses, in order (history)
    uresult           \* upload(): what it returned or threw

rvars == <<config, releases, releases0, tagRef, pc, retries, page,
           existingRelease, result, calls, run, prev>>
uvars == <<assets, currentAssets, path, upc, ucalls, uresult>>
vars == <<config, releases, releases0, tagRef, pc, retries, page,
          existingRelease, result, calls, run, prev,
          assets, currentAssets, path, upc, ucalls, uresult>>

---------------------------------------------------------------------------
(* Bounds of the model *)

MaxRetries == 3      \* largest maxRetries a run is started with
MaxReleases == 2     \* most releases the repository holds initially
MaxExisting == 1     \* the same, where every field of a release varies
PageCap == 1         \* most releases the service returns per page
MaxRuns == 2         \* runs in succession
MaxAssetId == 2      \* largest asset id
MaxAssets == 2       \* most assets the release holds initially

per_page == 100

\* smallest maxRetries a run is started with: release() accepts any number
MinRetries == -1

---------------------------------------------------------------------------
(* JavaScript values *)

Undefined == "undefined"
Null == "null"
True == "true"
False == "false"

\* ToBoolean: undefined, null, "" and false are falsy
Truthy(v) == v \notin {Undefined, Null, "", False}

\* a || b
Or(a, b) == IF Truthy(a) THEN a ELSE b

Min(a, b) == IF a <= b THEN a ELSE b

Procs == {1, 2}

---------------------------------------------------------------------------
(* Data *)

\* interface Release; id 0 stands for "no release" (null)
NoRelease ==
    [id |-> 0, tag_name |-> "", name |-> Null, body |-> Null,
     target_commitish |-> "", draft |-> False, prerelease |-> False]

IsRelease(r) == r.id # 0

NoResult == [kind |-> "none", release |-> NoRelease, error |-> ""]
Returned(r) == [kind |-> "release", release |-> r, error |-> ""]
Thrown(e) == [kind |-> "error", release |-> NoRelease, error |-> e]

TooManyRetries == "Too many retries."
TypeError == "TypeError"

\* util.isTag: the ref is a tag ref
IsTag(ref) == ref \in {"refs/tags/v1", "refs/tags/v2"}

\* ref.replace("refs/tags/", "")
RefName(ref) ==
    CASE ref = "refs/tags/v1" -> "v1"
      [] ref = "refs/tags/v2" -> "v2"
      [] OTHER -> ref

\* const tag = config.input_tag_name || (isTag(ref) ? ref.replace(...) : "")
Tag(cfg) ==
    Or(cfg.input_tag_name, IF IsTag(cfg.github_ref) THEN RefName(cfg.github_ref) ELSE "")

---------------------------------------------------------------------------
(* release(): the fields it sends *)

\* CreateParams without the default of the name: name: config.input_name
CreateParams_Mutant(cfg) ==
    [id |-> 0,
     tag_name |-> Tag(cfg),
     name |-> cfg.input_name,
     body |-> cfg.release_body,
     target_commitish |-> cfg.input_target_commitish,
     draft |-> cfg.input_draft,
     prerelease |-> cfg.input_prerelease]

\* the creation path's parameters of createRelease
CreateParams(cfg) ==
    [id |-> 0,
     tag_name |-> Tag(cfg),
     name |-> Or(cfg.input_name, Tag(cfg)),
     body |-> cfg.release_body,
     target_commitish |-> cfg.input_target_commitish,
     draft |-> cfg.input_draft,
     prerelease |-> cfg.input_prerelease]

MergedTargetCommitish(cfg, ex) ==
    IF Truthy(cfg.input_target_commitish)
       /\ cfg.input_target_commitish # ex.target_commitish
    THEN cfg.input_target_commitish
    ELSE ex.target_commitish

MergedName(cfg, ex) == Or(cfg.input_name, Or(ex.name, Tag(cfg)))

\* MergedBody appending whenever both bodies are non-empty, append_body or not
MergedBody_Mutant(cfg, ex) ==
    LET workflowBody == Or(cfg.release_body, "")
        existingReleaseBody == Or(ex.body, "")
    IN IF Truthy(workflowBody) /\ Truthy(existingReleaseBody)
       THEN existingReleaseBody \o "\n" \o workflowBody
       ELSE Or(workflowBody, existingReleaseBody)

\* MergedBody joining with a newline whenever append_body is set
MergedBody_Newline(cfg, ex) ==
    LET workflowBody == Or(cfg.release_body, "")
        existingReleaseBody == Or(ex.body, "")
    IN IF Truthy(cfg.input_append_body)
       THEN existingReleaseBody \o "\n" \o workflowBody
       ELSE Or(workflowBody, existingReleaseBody)

MergedBody(cfg, ex) ==
    LET workflowBody == Or(cfg.release_body, "")
        existingReleaseBody == Or(ex.body, "")
    IN IF Truthy(cfg.input_append_body) /\ Truthy(workflowBody)
          /\ Truthy(existingReleaseBody)
       THEN existingReleaseBody \o "\n" \o workflowBody
       ELSE Or(workflowBody, existingReleaseBody)

MergedDraft(cfg, ex) ==
    IF cfg.input_draft # Undefined THEN cfg.input_draft ELSE ex.draft

MergedPrerelease(cfg, ex) ==
    IF cfg.input_prerelease # Undefined THEN cfg.input_prerelease ELSE ex.prerelease

\* the update path's parameters of updateRelease
UpdateParams(cfg, ex) ==
    [id |-> ex.id,
     tag_name |-> Tag(cfg),
     name |-> MergedName(cfg, ex),
     body |-> MergedBody(cfg, ex),
     target_commitish |-> MergedTargetCommitish(cfg, ex),
     draft |-> MergedDraft(cfg, ex),
     prerelease |-> MergedPrerelease(cfg, ex)]

\* response.data.find((release) => release.tag_name === tag); NoRelease if none
RECURSIVE FindByTag(_, _)
FindByTag(list, tag) ==
    IF list = <<>> THEN NoRelease
    ELSE IF Head(list).tag_name = tag THEN Head(list)
    ELSE FindByTag(Tail(list), tag)

\* the draft lookup requested: if (config.input_draft)
\* (ScansList with the test inverted: if (!config.input_draft))
ScansList_Inverted(cfg) == ~Truthy(cfg.input_draft)
ScansList(cfg) == Truthy(cfg.input_draft)

\* if (config.input_update_tag)
RewritesTag(cfg) == Truthy(cfg.input_update_tag)

---------------------------------------------------------------------------
(* The release service *)

DefaultBranch == "main"

RECURSIVE MaxId(_)
MaxId(list) ==
    IF list = <<>> THEN 0
    ELSE LET m == MaxId(Tail(list))
         IN IF Head(list).id > m THEN Head(list).id ELSE m

\* the release the service makes of a createRelease request
Created(list, req) ==
    [id |-> MaxId(list) + 1,
     tag_name |-> req.tag_name,
     name |-> req.name,
     body |-> IF req.body = Undefined THEN Null ELSE req.body,
     target_commitish |->
        IF Truthy(req.target_commitish) THEN req.target_commitish ELSE DefaultBranch,
     draft |-> IF req.draft = Undefined THEN False ELSE req.draft,
     prerelease |-> IF req.prerelease = Undefined THEN False ELSE req.prerelease]

\* the release the service makes of an updateRelease request
Updated(old, req) ==
    [id |-> old.id,
     tag_name |-> req.tag_name,
     name |-> req.name,
     body |-> IF req.body = Undefined THEN old.body ELSE req.body,
     target_commitish |-> req.target_commitish,
     draft |-> IF req.draft = Undefined THEN old.draft ELSE req.draft,
     prerelease |-> IF req.prerelease = Undefined THEN old.prerelease ELSE req.prerelease]

\* the list after updateRelease
WithUpdated(list, req) ==
    [i \in DOMAIN list |->
        IF list[i].id = req.id THEN Updated(list[i], req) ELSE list[i]]

ById(list, id) ==
    LET hit == SelectSeq(list, LAMBDA r : r.id = id)
    IN IF hit = <<>> THEN NoRelease ELSE Head(hit)

\* getReleaseByTag: drafts are not found by tag
PublishedByTag(list, tag) ==
    FindByTag(SelectSeq(list, LAMBDA r : r.draft = False), tag)

\* the service refuses a second published release of a tag
AcceptsCreate(list, req) ==
    \/ Truthy(req.draft)
    \/ ~IsRelease(PublishedByTag(list, req.tag_name))

\* allReleases: per_page releases to a page, capped by the service
PageLen == Min(per_page, PageCap)

NumPages(list) ==
    IF list = <<>> THEN 1 ELSE (Len(list) + PageLen - 1) \div PageLen

PageOf(list, i) ==
    SubSeq(list, (i - 1) * PageLen + 1, Min(i * PageLen, Len(list)))

CarryingTag(list, tag) == SelectSeq(list, LAMBDA r : r.tag_name = tag)

---------------------------------------------------------------------------
(* release(): control flow *)

\* an entry of calls: a client call (or the settle delay) and how it ended
Call(p, op, status, req) == [proc |-> p, op |-> op, status |-> status, req |-> req]

\* where release() goes once it holds the existing release
\* AfterFound without the tag ref rewrite
AfterFound_Mutant(cfg) == "update"
AfterFound(cfg) == IF RewritesTag(cfg) THEN "deleteRef" ELSE "update"

\* the catch block of createRelease reads error.response.data.errors before it
\* retries: without a response that read throws a TypeError out of release()
\* (CatchCreateError with no recursion: every creation error leaves release())
CatchCreateError_Propagates(hasResponse) == "throw"
CatchCreateError(hasResponse) == IF hasResponse THEN "retry" ELSE "throw"

\* catch (e) of getReleaseByTag: e.status === 404 goes on to create, else throw e
CatchLookupError_Rethrows(status) == "throw"
CatchLookupError_Swallows(status) == "create"
CatchLookupError(status) == IF status = "404" THEN "create" ELSE "throw"

\* updateRelease is awaited outside any try: its error leaves release()
OnUpdateError_Retries == "retry"
OnUpdateError == "throw"

\* deleteRef and createRef are awaited outside any try: an error leaves release()
OnRefError_Ignored == "continue"
OnRefError == "throw"

\* if (maxRetries <= 0) throw new Error("Too many retries.")
\* (Exhausted off by one: maxRetries < 0)
Exhausted_Mutant(maxRetries) == maxRetries < 0
Exhausted(maxRetries) == maxRetries <= 0

Finish(p, res) ==
    /\ result' = [result EXCEPT ![p] = res]
    /\ pc' = [pc EXCEPT ![p] = "done"]

Goto(p, where) == pc' = [pc EXCEPT ![p] = where]

Log(p, op, status, req) == calls' = Append(calls, Call(p, op, status, req))

\* if (maxRetries <= 0) throw; ...; if (config.input_draft) scan the list
Enter(p) ==
    /\ pc[p] = "start"
    /\ IF Exhausted(retries[p])
       THEN Finish(p, Thrown(TooManyRetries)) /\ UNCHANGED page
       ELSE /\ Goto(p, IF ScansList(config) THEN "list" ELSE "lookup")
            /\ page' = [page EXCEPT ![p] = 1]
            /\ UNCHANGED result
    /\ existingRelease' = [existingRelease EXCEPT ![p] = NoRelease]
    /\ UNCHANGED <<config, releases, releases0, tagRef, retries, calls, run, prev>>
    /\ UNCHANGED uvars

\* for await (const response of releaser.allReleases(...)): one page
ListPage(p) ==
    /\ pc[p] = "list"
    /\ LET hit == FindByTag(PageOf(releases, page[p]), Tag(config))
       IN IF IsRelease(hit)
          THEN Finish(p, Returned(hit)) /\ UNCHANGED page
          ELSE /\ IF page[p] < NumPages(releases)
                  THEN Goto(p, "list") /\ page' = [page EXCEPT ![p] = page[p] + 1]
                  ELSE Goto(p, "lookup") /\ UNCHANGED page
               /\ UNCHANGED result
    /\ Log(p, "allReleases", "ok", NoRelease)
    /\ UNCHANGED <<config, releases, releases0, tagRef, retries, existingRelease, run, prev>>
    /\ UNCHANGED uvars

\* a page request fails: the error leaves release()
ListPageFail(p) ==
    /\ pc[p] = "list"
    /\ Finish(p, Thrown("allReleases failed"))
    /\ Log(p, "allReleases", "error", NoRelease)
    /\ UNCHANGED <<config, releases, releases0, tagRef, retries, page, existingRelease, run, prev>>
    /\ UNCHANGED uvars

\* getReleaseByTag answers with the release
LookupFound(p) ==
    /\ pc[p] = "lookup"
    /\ IsRelease(PublishedByTag(releases, Tag(config)))
    /\ existingRelease' =
          [existingRelease EXCEPT ![p] = PublishedByTag(releases, Tag(config))]
    /\ Goto(p, AfterFound(config))
    /\ Log(p, "getReleaseByTag", "ok", NoRelease)
    /\ UNCHANGED <<config, releases, releases0, tagRef, retries, page, result, run, prev>>
    /\ UNCHANGED uvars

\* getReleaseByTag answers 404
LookupNotFound(p) ==
    /\ pc[p] = "lookup"
    /\ ~IsRelease(PublishedByTag(releases, Tag(config)))
    /\ IF CatchLookupError("404") = "create"
       THEN Goto(p, "create") /\ UNCHANGED result
       ELSE Finish(p, Thrown("getReleaseByTag failed"))
    /\ Log(p, "getReleaseByTag", "404", NoRelease)
    /\ UNCHANGED <<config, releases, releases0, tagRef, retries, page, existingRelease,
                   run, prev>>
    /\ UNCHANGED uvars

\* getReleaseByTag fails with another status: rethrown
LookupError(p) ==
    /\ pc[p] = "lookup"
    /\ IF CatchLookupError("500") = "create"
       THEN Goto(p, "create") /\ UNCHANGED result
       ELSE Finish(p, Thrown("getReleaseByTag failed"))
    /\ Log(p, "getReleaseByTag", "error", NoRelease)
    /\ UNCHANGED <<config, releases, releases0, tagRef, retries, page, existingRelease,
                   run, prev>>
    /\ UNCHANGED uvars

\* createRelease succeeds: return release.data
CreateOk(p) ==
    /\ pc[p] = "create"
    /\ AcceptsCreate(releases, CreateParams(config))
    /\ LET new == Created(releases, CreateParams(config))
       IN /\ releases' = <<new>> \o releases
          /\ tagRef' = IF new.draft = False /\ tagRef = "" THEN config.github_sha ELSE tagRef
          /\ Finish(p, Returned(new))
    /\ Log(p, "createRelease", "ok", CreateParams(config))
    /\ UNCHANGED <<config, releases0, retries, page, existingRelease, run, prev>>
    /\ UNCHANGED uvars

\* createRelease fails; hasResponse: the error carries error.response.data
CreateFail(p, hasResponse) ==
    /\ pc[p] = "create"
    /\ IF CatchCreateError(hasResponse) = "retry"
       THEN /\ retries' = [retries EXCEPT ![p] = retries[p] - 1]
            /\ Goto(p, "start")
            /\ UNCHANGED result
       ELSE /\ Finish(p, Thrown(TypeError))
            /\ UNCHANGED retries
    /\ Log(p, "createRelease", IF hasResponse THEN "rejected" ELSE "no response",
           CreateParams(config))
    /\ UNCHANGED <<config, releases, releases0, tagRef, page, existingRelease, run, prev>>
    /\ UNCHANGED uvars

\* await releaser.deleteRef(...)
DeleteRefOk(p) ==
    /\ pc[p] = "deleteRef"
    /\ tagRef # ""
    /\ tagRef' = ""
    /\ Goto(p, "createRef")
    /\ Log(p, "deleteRef", "ok", NoRelease)
    /\ UNCHANGED <<config, releases, releases0, retries, page, existingRelease, result,
                   run, prev>>
    /\ UNCHANGED uvars

DeleteRefFail(p) ==
    /\ pc[p] = "deleteRef"
    /\ IF OnRefError = "throw"
       THEN Finish(p, Thrown("deleteRef failed"))
       ELSE Goto(p, "createRef") /\ UNCHANGED result
    /\ Log(p, "deleteRef", "error", NoRelease)
    /\ UNCHANGED <<config, releases, releases0, tagRef, retries, page, existingRelease,
                   run, prev>>
    /\ UNCHANGED uvars

\* await releaser.createRef(... sha: config.github_sha)
CreateRefOk(p) ==
    /\ pc[p] = "createRef"
    /\ tagRef = ""
    /\ tagRef' = config.github_sha
    /\ Goto(p, "sleep")
    /\ Log(p, "createRef", "ok", NoRelease)
    /\ UNCHANGED <<config, releases, releases0, retries, page, existingRelease, result,
                   run, prev>>
    /\ UNCHANGED uvars

CreateRefFail(p) ==
    /\ pc[p] = "createRef"
    /\ IF OnRefError = "throw"
       THEN Finish(p, Thrown("createRef failed"))
       ELSE Goto(p, "sleep") /\ UNCHANGED result
    /\ Log(p, "createRef", "error", NoRelease)
    /\ UNCHANGED <<config, releases, releases0, tagRef, retries, page, existingRelease,
                   run, prev>>
    /\ UNCHANGED uvars

\* await sleep(2000)
Sleep(p) ==
    /\ pc[p] = "sleep"
    /\ Goto(p, "update")
    /\ Log(p, "sleep", "ok", NoRelease)
    /\ UNCHANGED <<config, releases, releases0, tagRef, retries, page, existingRelease,
                   result, run, prev>>
    /\ UNCHANGED uvars

\* updateRelease succeeds: return release.data
UpdateOk(p) ==
    /\ pc[p] = "update"
    /\ IsRelease(ById(releases, existingRelease[p].id))
    /\ LET req == UpdateParams(config, existingRelease[p])
       IN /\ releases' = WithUpdated(releases, req)
          /\ Finish(p, Returned(Updated(ById(releases, req.id), req)))
          /\ Log(p, "updateRelease", "ok", req)
    /\ UNCHANGED <<config, releases0, tagRef, retries, page, existingRelease, run, prev>>
    /\ UNCHANGED uvars

UpdateFail(p) ==
    /\ pc[p] = "update"
    /\ IF OnUpdateError = "throw"
       THEN Finish(p, Thrown("updateRelease failed")) /\ UNCHANGED retries
       ELSE /\ retries' = [retries EXCEPT ![p] = retries[p] - 1]
            /\ Goto(p, "start")
            /\ UNCHANGED result
    /\ Log(p, "updateRelease", "error", UpdateParams(config, existingRelease[p]))
    /\ UNCHANGED <<config, releases, releases0, tagRef, page, existingRelease, run, prev>>
    /\ UNCHANGED uvars

\* the action is run again with the same configuration
NewRun(p) ==
    /\ pc[p] = "done"
    /\ run < MaxRuns
    /\ run' = run + 1
    /\ prev' = [result |-> result[p], releases |-> releases, calls |-> calls]
    /\ pc' = [pc EXCEPT ![p] = "start"]
    /\ retries' = [retries EXCEPT ![p] = config.maxRetries]
    /\ page' = [page EXCEPT ![p] = 1]
    /\ existingRelease' = [existingRelease EXCEPT ![p] = NoRelease]
    /\ result' = [result EXCEPT ![p] = NoResult]
    /\ calls' = <<>>
    /\ UNCHANGED <<config, releases, releases0, tagRef>>
    /\ UNCHANGED uvars

---------------------------------------------------------------------------
(* upload() *)

\* path.basename
Basename(p) ==
    CASE p = "dist/a.zip" -> "a.zip"
      [] OTHER -> p

\* currentAssets.find(({ name: currentName }) => currentName == name)
NoAsset == [id |-> -1, name |-> ""]

RECURSIVE FindAsset(_, _)
FindAsset(list, name) ==
    IF list = <<>> THEN NoAsset
    ELSE IF Head(list).name = name THEN Head(list)
    ELSE FindAsset(Tail(list), name)

Found(a) == a # NoAsset

\* if (config.input_overwrite_files === false) return null
\* (SkipsExisting with the flag inverted: === true)
SkipsExisting_Mutant(cfg) == cfg.input_overwrite_files = True
SkipsExisting(cfg) == cfg.input_overwrite_files = False

\* asset_id: currentAsset.id || 1
DeleteAssetId(a) == IF a.id = 0 THEN 1 ELSE a.id

UCall(op, phase, id, name, status) ==
    [op |-> op, phase |-> phase, asset_id |-> id, name |-> name, status |-> status]

UReturned(v) == [kind |-> "returned", value |-> v]
UThrown(e) == [kind |-> "error", value |-> e]

AssetIds(set) == {a.id : a \in set}
AssetNames(set) == {a.name : a \in set}
Range(list) == {list[i] : i \in DOMAIN list}

SetMax(S) == CHOOSE m \in S : \A x \in S : x <= m

\* the id the service gives an uploaded asset: never one it gave before
FreshAssetId == SetMax(AssetIds(assets) \cup AssetIds(Range(currentAssets)) \cup {0}) + 1

\* find the same-named asset; skip, or request its deletion, or go on to upload
UploadBegin ==
    /\ upc = "start"
    /\ LET currentAsset == FindAsset(currentAssets, Basename(path))
       IN IF Found(currentAsset)
          THEN IF SkipsExisting(config)
               THEN /\ uresult' = UReturned(Null)
                    /\ upc' = "done"
                    /\ UNCHANGED ucalls
               ELSE /\ ucalls' = Append(ucalls,
                          UCall("deleteReleaseAsset", "request",
                                DeleteAssetId(currentAsset), "", ""))
                    /\ upc' = "deleting"
                    /\ UNCHANGED uresult
          ELSE /\ upc' = "upload"
               /\ UNCHANGED <<ucalls, uresult>>
    /\ UNCHANGED <<assets, currentAssets, path>>
    /\ UNCHANGED rvars

PendingDeleteId == ucalls[Len(ucalls)].asset_id

\* the service deletes the asset: await returns
DeleteAssetOk ==
    /\ upc = "deleting"
    /\ PendingDeleteId \in AssetIds(assets)
    /\ assets' = {a \in assets : a.id # PendingDeleteId}
    /\ ucalls' = Append(ucalls,
          UCall("deleteReleaseAsset", "response", PendingDeleteId, "", "204"))
    /\ upc' = "upload"
    /\ UNCHANGED <<currentAssets, path, uresult>>
    /\ UNCHANGED rvars

\* the deletion fails (no such asset, or any other error): await throws
DeleteAssetFail ==
    /\ upc = "deleting"
    /\ ucalls' = Append(ucalls,
          UCall("deleteReleaseAsset", "response", PendingDeleteId, "", "error"))
    /\ uresult' = UThrown("deleteReleaseAsset failed")
    /\ upc' = "done"
    /\ UNCHANGED <<assets, currentAssets, path>>
    /\ UNCHANGED rvars

\* fetch(endpoint, { method: "POST", ... })
UploadPost ==
    /\ upc = "upload"
    /\ ucalls' = Append(ucalls, UCall("upload", "request", -1, Basename(path), ""))
    /\ upc' = "uploading"
    /\ UNCHANGED <<assets, currentAssets, path, uresult>>
    /\ UNCHANGED rvars

\* status 201: return json
UploadCreated ==
    /\ upc = "uploading"
    /\ Basename(path) \notin AssetNames(assets)
    /\ assets' = assets \cup {[id |-> FreshAssetId, name |-> Basename(path)]}
    /\ ucalls' = Append(ucalls,
          UCall("upload", "response", FreshAssetId, Basename(path), "201"))
    /\ uresult' = UReturned(Basename(path))
    /\ upc' = "done"
    /\ UNCHANGED <<currentAssets, path>>
    /\ UNCHANGED rvars

\* any other status (422 for a name the release holds, or a failure): throw
UploadRefused ==
    /\ upc = "uploading"
    /\ ucalls' = Append(ucalls,
          UCall("upload", "response", -1, Basename(path),
                IF Basename(path) \in AssetNames(assets) THEN "422" ELSE "500"))
    /\ uresult' = UThrown("Failed to upload release asset")
    /\ upc' = "done"
    /\ UNCHANGED <<assets, currentAssets, path>>
    /\ UNCHANGED rvars

---------------------------------------------------------------------------
(* Initial states *)

Tri == {Undefined, True, False}

TheTag == "v1"
OtherTag == "v0"

\* the configurations with the given flags; the tag is TheTag
Configs(drafts, pres, names, bodies, appends, targets, updateTags, overwrites, mr) ==
    [github_ref : {"refs/heads/main"},
     github_sha : {"sha1"},
     input_tag_name : {TheTag},
     input_name : names,
     release_body : bodies,
     input_draft : drafts,
     input_prerelease : pres,
     input_append_body : appends,
     input_target_commitish : targets,
     input_update_tag : updateTags,
     input_overwrite_files : overwrites,
     maxRetries : mr]

\* releases the repository may hold, without their ids
Shapes(names, bodies) ==
    [id : {0}, tag_name : {TheTag}, name : names, body : bodies,
     target_commitish : {"c1"}, draft : {True, False}, prerelease : {True, False}]
    \cup
    [id : {0}, tag_name : {OtherTag}, name : {"other"}, body : {Null},
     target_commitish : {"c1"}, draft : {True, False}, prerelease : {False}]

\* newest first: the first of n releases has id n
Numbered(list) == [i \in DOMAIN list |-> [list[i] EXCEPT !.id = Len(list) - i + 1]]

Published(list, tag) ==
    SelectSeq(list, LAMBDA r : r.tag_name = tag /\ r.draft = False)

\* the service holds at most one published release per tag
Stores(shapes, maxLen) ==
    {Numbered(list) : list \in
        {l \in UNION {[1..n -> shapes] : n \in 0..maxLen} :
            /\ Len(Published(l, TheTag)) <= 1
            /\ Len(Published(l, OtherTag)) <= 1}}

NoUResult == [kind |-> "none", value |-> ""]

InitUploadIdle ==
    /\ assets = {}
    /\ currentAssets = <<>>
    /\ path = ""
    /\ upc = "idle"
    /\ ucalls = <<>>
    /\ uresult = NoUResult

InitReconcile(configs, stores, active) ==
    /\ config \in configs
    /\ releases \in stores
    /\ releases0 = releases
    /\ tagRef = IF Published(releases, TheTag) # <<>> THEN "sha0" ELSE ""
    /\ pc = [p \in Procs |-> IF p \in active THEN "start" ELSE "idle"]
    /\ retries = [p \in Procs |-> config.maxRetries]
    /\ page = [p \in Procs |-> 1]
    /\ existingRelease = [p \in Procs |-> NoRelease]
    /\ result = [p \in Procs |-> NoResult]
    /\ calls = <<>>
    /\ run = 1
    /\ prev = [result |-> NoResult, releases |-> <<>>, calls |-> <<>>]

---------------------------------------------------------------------------
(* Spec: one run of release() against a service that may fail any call *)

Init ==
    /\ InitReconcile(
          Configs(Tri, Tri, {Undefined, "name"}, {Undefined, "B"}, {False},
                  {Undefined}, {True, False}, {Undefined}, MinRetries..MaxRetries),
          Stores(Shapes({"old"}, {"A"}), MaxReleases),
          {1})
    /\ InitUploadIdle

Steps(p) ==
    \/ Enter(p)
    \/ ListPage(p)
    \/ LookupFound(p)
    \/ LookupNotFound(p)
    \/ CreateOk(p)
    \/ DeleteRefOk(p)
    \/ CreateRefOk(p)
    \/ Sleep(p)
    \/ UpdateOk(p)

Faults(p) ==
    \/ ListPageFail(p)
    \/ LookupError(p)
    \/ \E hasResponse \in BOOLEAN : CreateFail(p, hasResponse)
    \/ DeleteRefFail(p)
    \/ CreateRefFail(p)
    \/ UpdateFail(p)

Next == Steps(1) \/ Faults(1)

Spec == Init /\ [][Next]_vars

---------------------------------------------------------------------------
(* SpecTwice: release() run MaxRuns times in succession with the same       *)
(* configuration, nothing else touching the service; every field of the    *)
(* configuration and of the existing release varies                        *)

InitTwice ==
    /\ InitReconcile(
          Configs(Tri, Tri, {Undefined, "name"}, {Undefined, "B"}, {True, False},
                  {Undefined, "c2"}, {True, False}, {Undefined}, {MaxRetries}),
          Stores(Shapes({Null, "old"}, {Null, "A"}), MaxExisting),
          {1})
    /\ InitUploadIdle

\* one run over every combination of append_body, workflow body and existing body
InitMerge ==
    /\ InitReconcile(
          Configs(Tri, {Undefined}, {Undefined}, {Undefined, "", "B"}, Tri,
                  {Undefined}, {True, False}, {Undefined}, {1}),
          Stores(Shapes({"old"}, {Null, "", "A"}), MaxExisting),
          {1})
    /\ InitUploadIdle

SpecMerge == InitMerge /\ [][Next]_vars

\* every awaited client call returns: a run that can take a step takes one
SpecLive == Init /\ [][Next]_vars /\ WF_vars(Next)

\* two concurrent runs of release() with the same configuration, draft not
\* requested, maxRetries >= 2, on a repository with no release of the tag
InitConc ==
    /\ InitReconcile(
          Configs({Undefined, False}, Tri, {"name"}, {"B"}, {False},
                  {Undefined}, {True, False}, {Undefined}, 2..MaxRetries),
          {s \in Stores(Shapes({"old"}, {"A"}), MaxExisting) :
              CarryingTag(s, TheTag) = <<>>},
          Procs)
    /\ InitUploadIdle

\* the service answers a createRelease for a tag that has a release with a
\* rejection (an error with a response)
CreateRejected(p) ==
    /\ ~AcceptsCreate(releases, CreateParams(config))
    /\ CreateFail(p, TRUE)

NextConc ==
    \E p \in Procs :
        \/ Enter(p)
        \/ LookupFound(p)
        \/ LookupNotFound(p)
        \/ CreateOk(p)
        \/ CreateRejected(p)
        \/ DeleteRefOk(p)
        \/ CreateRefOk(p)
        \/ Sleep(p)
        \/ UpdateOk(p)

SpecConc == InitConc /\ [][NextConc]_vars

\* a createRelease rejected with a response is the one failure a run recovers from
NextTwice ==
    \/ Steps(1)
    \/ CreateFail(1, TRUE)
    \/ NewRun(1)

SpecTwice == InitTwice /\ [][NextTwice]_vars

---------------------------------------------------------------------------
(* SpecUpload: one call of upload() against the assets of a release *)

AssetNameSet == {"a.zip", "b.txt"}

\* the asset lists a release may hold: ids and names unique
AssetLists ==
    {l \in UNION {[1..n -> [id : 0..MaxAssetId, name : AssetNameSet]] : n \in 0..MaxAssets} :
        \A i, j \in DOMAIN l : i # j => l[i].id # l[j].id /\ l[i].name # l[j].name}

InitUpload ==
    /\ InitReconcile(
          Configs({Undefined}, {Undefined}, {Undefined}, {Undefined}, {False},
                  {Undefined}, {False}, Tri, {MaxRetries}),
          {<<>>},
          {})
    /\ currentAssets \in AssetLists
    /\ assets = Range(currentAssets)
    /\ path \in {"dist/a.zip", "b.txt"}
    /\ upc = "start"
    /\ ucalls = <<>>
    /\ uresult = NoUResult

NextUpload ==
    \/ UploadBegin
    \/ DeleteAssetOk
    \/ DeleteAssetFail
    \/ UploadPost
    \/ UploadCreated
    \/ UploadRefused

SpecUpload == InitUpload /\ [][NextUpload]_vars

---------------------------------------------------------------------------
(* What the run did, read off calls *)

OpCalls(op) == SelectSeq(calls, LAMBDA c : c.op = op)
OkCalls(op) == SelectSeq(calls, LAMBDA c : c.op = op /\ c.status = "ok")
FailedCalls(op) == SelectSeq(calls, LAMBDA c : c.op = op /\ c.status # "ok")
Ids(list) == {list[i].id : i \in DOMAIN list}
Unset(v) == v \in {Undefined, Null, ""}

---------------------------------------------------------------------------
(* C1..C3: creation and its retries (Spec) *)

\* C1: if createRelease failed maxRetries times (maxRetries >= 1) and never
\* succeeded, the finished run threw "Too many retries." and issued exactly
\* maxRetries createRelease calls.
C1_RetryExhausted ==
    (/\ pc[1] = "done"
     /\ config.maxRetries >= 1
     /\ Len(FailedCalls("createRelease")) = config.maxRetries
     /\ OkCalls("createRelease") = <<>>)
    => /\ result[1] = Thrown(TooManyRetries)
       /\ Len(OpCalls("createRelease")) = config.maxRetries

\* C2: a createRelease that succeeds after k failed ones has k < maxRetries, is
\* the (k+1)th and last createRelease call of the run, every lookup before it
\* answered 404, and the run returns the release it produced.
C2_RetryThenSuccess ==
    \A i \in DOMAIN calls :
        (calls[i].op = "createRelease" /\ calls[i].status = "ok")
        => LET k == Len(FailedCalls("createRelease"))
           IN /\ k < config.maxRetries
              /\ i = Len(calls)
              /\ Len(OpCalls("createRelease")) = k + 1
              /\ Len(SelectSeq(calls, LAMBDA c :
                        c.op = "getReleaseByTag" /\ c.status = "404")) = k + 1
              /\ OpCalls("updateRelease") = <<>>
              /\ pc[1] = "done"
              /\ result[1].kind = "release"
              /\ result[1].release = Head(releases)
              /\ result[1].release.id \notin Ids(releases0)
              /\ result[1].release.tag_name = TheTag
              /\ Tail(releases) = releases0

C2_Witness ==
    /\ pc[1] = "done"
    /\ result[1].kind = "release"
    /\ Len(FailedCalls("createRelease")) = 2
    /\ Len(OkCalls("createRelease")) = 1
    /\ config.maxRetries = 3

\* C3: when the first createRelease of a run succeeds, it is the only one, it
\* carries the configured name, or the tag when no name is configured, no
\* updateRelease is issued, no retry happened and the created release is returned.
C3_CreateOnce ==
    (OpCalls("createRelease") # <<>> /\ OpCalls("createRelease")[1].status = "ok")
    => /\ Len(OpCalls("createRelease")) = 1
       /\ OpCalls("createRelease")[1].req.name =
             (IF Unset(config.input_name) THEN TheTag ELSE config.input_name)
       /\ OpCalls("createRelease")[1].req.tag_name = TheTag
       /\ OpCalls("updateRelease") = <<>>
       /\ retries[1] = config.maxRetries
       /\ pc[1] = "done"
       /\ result[1] = Returned(Head(releases))
       /\ result[1].release.name = OpCalls("createRelease")[1].req.name
       /\ Len(releases) = Len(releases0) + 1

C3_Witness ==
    /\ pc[1] = "done"
    /\ result[1].kind = "release"
    /\ OkCalls("createRelease") # <<>>
    /\ Unset(config.input_name)
    /\ result[1].release.name = TheTag
    /\ config.input_draft = True
    /\ releases0 # <<>>

---------------------------------------------------------------------------
(* C4: the draft and prerelease flags of an existing release (Spec) *)

\* C4: when the run returns a release that existed before it, the release has
\* the configured draft value if one is configured and the draft value it had
\* before otherwise, and likewise for prerelease.
C4_TriState ==
    (/\ pc[1] = "done"
     /\ result[1].kind = "release"
     /\ result[1].release.id \in Ids(releases0))
    => LET before == ById(releases0, result[1].release.id)
       IN /\ result[1].release.draft =
                (IF config.input_draft # Undefined THEN config.input_draft
                 ELSE before.draft)
          /\ result[1].release.prerelease =
                (IF config.input_prerelease # Undefined THEN config.input_prerelease
                 ELSE before.prerelease)

---------------------------------------------------------------------------
(* C5, C6: two runs in succession (SpecTwice) *)

\* null and "" are the same empty text
Text(body) == IF Unset(body) THEN "" ELSE body

Content(r) ==
    [name |-> r.name, body |-> Text(r.body), target_commitish |-> r.target_commitish,
     draft |-> r.draft, prerelease |-> r.prerelease]

BothRunsReturned ==
    /\ run >= 2
    /\ pc[1] = "done"
    /\ result[1].kind = "release"
    /\ prev.result.kind = "release"

\* C5 as stated: after two runs that both return, the release the first run
\* returned has the content it had after the first run, for every configuration.
C5_Idempotent ==
    BothRunsReturned
    => Content(ById(releases, prev.result.release.id))
        = Content(ById(prev.releases, prev.result.release.id))

AppendsBody ==
    /\ config.input_append_body = True
    /\ ~Unset(config.release_body)
    /\ config.input_draft # True

\* C5 amended: the same, unless append_body is set with a non-empty body and no
\* draft is requested; then the second run appends the body once more.
C5_IdempotentUnlessAppend ==
    BothRunsReturned
    => IF AppendsBody
       THEN /\ ById(releases, prev.result.release.id).body
                  = ById(prev.releases, prev.result.release.id).body
                      \o "\n" \o config.release_body
            /\ [Content(ById(releases, prev.result.release.id)) EXCEPT !.body = ""]
                  = [Content(ById(prev.releases, prev.result.release.id)) EXCEPT !.body = ""]
       ELSE Content(ById(releases, prev.result.release.id))
               = Content(ById(prev.releases, prev.result.release.id))

C5_Witness ==
    /\ BothRunsReturned
    /\ OkCalls("updateRelease") # <<>>
    /\ OkCalls("updateRelease")[1].req.body = "B"
    /\ config.input_append_body = False
    /\ ById(releases0, result[1].release.id).body = "A"
    /\ config.input_target_commitish = "c2"
    /\ config.input_prerelease = True

\* C6: after two runs that both return, the second run issued no createRelease,
\* returned the release id the first run returned, and exactly one release
\* carries the tag after the first run and after the second.
C6_NoDuplicate ==
    BothRunsReturned
    => /\ OpCalls("createRelease") = <<>>
       /\ result[1].release.id = prev.result.release.id
       /\ Len(CarryingTag(prev.releases, TheTag)) = 1
       /\ Len(CarryingTag(releases, TheTag)) = 1

---------------------------------------------------------------------------
(* C7: the tag ref rewrite (Spec) *)

RefOps == {"deleteRef", "createRef", "sleep", "updateRelease"}

\* C7: once updateRelease is issued, with update_tag set the ref calls, the delay
\* and the update of the run are deleteRef, createRef, the delay, updateRelease,
\* in that order, each of the first three completed; with update_tag unset the
\* run never issues deleteRef, createRef or the delay.
C7_RefRewriteOrder ==
    /\ OpCalls("updateRelease") # <<>>
       => LET seq == SelectSeq(calls, LAMBDA c : c.op \in RefOps)
          IN IF config.input_update_tag = True
             THEN /\ [i \in DOMAIN seq |-> seq[i].op]
                        = <<"deleteRef", "createRef", "sleep", "updateRelease">>
                  /\ \A i \in 1..3 : seq[i].status = "ok"
                  /\ tagRef = config.github_sha
             ELSE Len(seq) = 1
    /\ config.input_update_tag # True
       => \A i \in DOMAIN calls : calls[i].op \notin {"deleteRef", "createRef", "sleep"}

C7_Witness ==
    /\ pc[1] = "done"
    /\ result[1].kind = "release"
    /\ config.input_update_tag = True
    /\ OkCalls("updateRelease") # <<>>
    /\ OkCalls("deleteRef") # <<>>

---------------------------------------------------------------------------
(* C8..C10: upload() (SpecUpload) *)

Existing == FindAsset(currentAssets, Basename(path))

URequests(op) == SelectSeq(ucalls, LAMBDA c : c.op = op /\ c.phase = "request")

\* C8: with a same-named asset and overwrite_files true, once the upload request
\* is issued the run has issued exactly one deleteReleaseAsset, for the id of that
\* asset, which completed before the one upload request.
C8_DeleteThenUpload ==
    (/\ Found(Existing)
     /\ config.input_overwrite_files = True
     /\ URequests("upload") # <<>>)
    => /\ Len(URequests("deleteReleaseAsset")) = 1
       /\ Len(URequests("upload")) = 1
       /\ ucalls[1].op = "deleteReleaseAsset" /\ ucalls[1].phase = "request"
       /\ ucalls[1].asset_id = Existing.id
       /\ ucalls[2].op = "deleteReleaseAsset" /\ ucalls[2].phase = "response"
       /\ ucalls[2].status = "204"
       /\ ucalls[3].op = "upload" /\ ucalls[3].phase = "request"

\* C9: when upload() ends after overwriting a same-named asset, the release holds
\* exactly one asset of that name, whether the upload was acknowledged or failed.
C9_AtomicReplace ==
    (/\ upc = "done"
     /\ Found(Existing)
     /\ config.input_overwrite_files # False)
    => Cardinality({a \in assets : a.name = Basename(path)}) = 1

\* C10: with a same-named asset and overwrite_files false, upload() issues no
\* request at all, leaves the assets as they were and returns null.
C10_SkipExisting ==
    (Found(Existing) /\ config.input_overwrite_files = False)
    => /\ ucalls = <<>>
       /\ assets = Range(currentAssets)
       /\ upc \in {"start", "done"}
       /\ upc = "done" => uresult = UReturned(Null)

C10_Witness ==
    /\ upc = "done"
    /\ Found(Existing)
    /\ config.input_overwrite_files = False
    /\ uresult = UReturned(Null)
    /\ Cardinality(assets) = 2

---------------------------------------------------------------------------
(* C11, C12: the lookup among all releases when a draft is requested (Spec) *)

ErrorCalls(op) == SelectSeq(calls, LAMBDA c : c.op = op /\ c.status = "error")

\* position in the list of the first release carrying the tag
FirstCarrying(list) ==
    CHOOSE i \in DOMAIN list :
        /\ list[i].tag_name = TheTag
        /\ \A j \in 1..(i - 1) : list[j].tag_name # TheTag

\* C11: with a draft requested and a listed release carrying the tag, the run
\* issues allReleases page requests only (no getReleaseByTag, createRelease,
\* updateRelease, deleteRef, createRef), changes nothing, and when no page
\* request failed returns the first listed release carrying the tag, having
\* fetched the pages up to the one that holds it.
C11_DraftShortCircuit ==
    (config.input_draft = True /\ CarryingTag(releases0, TheTag) # <<>>)
    => /\ \A i \in DOMAIN calls : calls[i].op = "allReleases"
       /\ releases = releases0
       /\ (pc[1] = "done" /\ ErrorCalls("allReleases") = <<>> /\ config.maxRetries >= 1)
          => /\ result[1] = Returned(releases0[FirstCarrying(releases0)])
             /\ Len(calls) = (FirstCarrying(releases0) + PageLen - 1) \div PageLen

C11_Witness ==
    /\ pc[1] = "done"
    /\ config.input_draft = True
    /\ config.input_update_tag = True
    /\ config.input_prerelease = True
    /\ Len(CarryingTag(releases0, TheTag)) = 1
    /\ Len(OkCalls("allReleases")) = 2
    /\ result[1] = Returned(releases0[2])

\* C12: with a draft requested and no listed release carrying the tag, the run
\* never issues updateRelease; every createRelease comes right after a 404 of
\* getReleaseByTag that followed a scan of every page; and a run that ends with
\* no page request or lookup failed (maxRetries >= 1) has issued createRelease.
C12_DraftFallsThrough ==
    (config.input_draft = True /\ CarryingTag(releases0, TheTag) = <<>>)
    => /\ OpCalls("updateRelease") = <<>>
       /\ \A i \in DOMAIN calls :
             calls[i].op = "createRelease"
             => /\ i > NumPages(releases0) + 1
                /\ calls[i - 1].op = "getReleaseByTag" /\ calls[i - 1].status = "404"
                /\ \A j \in (i - 1 - NumPages(releases0))..(i - 2) :
                      calls[j].op = "allReleases" /\ calls[j].status = "ok"
       /\ (/\ pc[1] = "done"
           /\ ErrorCalls("allReleases") = <<>>
           /\ ErrorCalls("getReleaseByTag") = <<>>
           /\ config.maxRetries >= 1)
          => OpCalls("createRelease") # <<>>

C12_Witness ==
    /\ pc[1] = "done"
    /\ config.input_draft = True
    /\ Len(releases0) = 2
    /\ CarryingTag(releases0, TheTag) = <<>>
    /\ result[1].kind = "release"
    /\ result[1].release.draft = True
    /\ Len(OkCalls("allReleases")) = 2
    /\ OkCalls("createRelease") # <<>>

---------------------------------------------------------------------------
(* C13: the body sent on the update path (SpecMerge) *)

EmptyBody(b) == b \in {Undefined, Null, ""}

\* the body the claim prescribes for an update of release ex
PrescribedBody(ex) ==
    LET workflow == IF EmptyBody(config.release_body) THEN "" ELSE config.release_body
        existing == IF EmptyBody(ex.body) THEN "" ELSE ex.body
    IN IF config.input_append_body = True /\ workflow # "" /\ existing # ""
       THEN existing \o "\n" \o workflow
       ELSE IF workflow # "" THEN workflow ELSE existing

\* C13: every updateRelease request carries the existing body, a newline and the
\* workflow body when append_body is set and both are non-empty; otherwise the
\* workflow body when non-empty, else the existing body (an absent one as "").
C13_MergedBody ==
    \A i \in DOMAIN calls :
        calls[i].op = "updateRelease"
        => calls[i].req.body = PrescribedBody(ById(releases0, calls[i].req.id))

\* an update that appended, the run over
C13_Witness ==
    /\ pc[1] = "done"
    /\ config.input_append_body = True
    /\ config.release_body = "B"
    /\ OkCalls("updateRelease") # <<>>
    /\ ById(releases0, calls[Len(calls)].req.id).body = "A"
    /\ calls[Len(calls)].req.body = "A\nB"
    /\ result[1] = Returned(ById(releases, calls[Len(calls)].req.id))
    /\ result[1].release.body = "A\nB"

---------------------------------------------------------------------------
(* C14..C16: what a failed call leads to (Spec) *)

\* C14: every failed createRelease, whether its error carries a response or
\* not, is followed by a retry with maxRetries - 1: the budget left is
\* maxRetries less the number of failed createRelease calls, and the run does
\* not end with an error raised while handling the creation failure.
C14_CreateFailureRetries ==
    /\ retries[1] = config.maxRetries - Len(FailedCalls("createRelease"))
    /\ result[1] # Thrown(TypeError)

\* C15: a getReleaseByTag failure other than 404 is the last call of the run:
\* the run is over with that error and the retry budget is untouched by it,
\* on the first attempt and on a retry attempt alike; a 404 does not end the
\* run and is followed by createRelease.
C15_LookupErrorFatal ==
    \A i \in DOMAIN calls :
        calls[i].op = "getReleaseByTag"
        => /\ calls[i].status = "error"
              => /\ i = Len(calls)
                 /\ pc[1] = "done"
                 /\ result[1] = Thrown("getReleaseByTag failed")
                 /\ retries[1] = config.maxRetries - Len(FailedCalls("createRelease"))
           /\ calls[i].status = "404"
              => IF i = Len(calls) THEN pc[1] = "create" /\ result[1] = NoResult
                 ELSE calls[i + 1].op = "createRelease"

\* the lookup of a retry attempt fails
C15_Witness ==
    /\ pc[1] = "done"
    /\ Len(calls) = 3
    /\ calls[1].op = "getReleaseByTag" /\ calls[1].status = "404"
    /\ calls[2].op = "createRelease" /\ calls[2].status = "rejected"
    /\ calls[3].op = "getReleaseByTag" /\ calls[3].status = "error"
    /\ result[1] = Thrown("getReleaseByTag failed")
    /\ retries[1] = 2

\* C16: a failed updateRelease is the last call of the run: the run is over
\* with that error, the release is as it was, and the retry budget left is the
\* one the failed createRelease calls left.
C16_UpdateErrorFatal ==
    \A i \in DOMAIN calls :
        (calls[i].op = "updateRelease" /\ calls[i].status = "error")
        => /\ i = Len(calls)
           /\ pc[1] = "done"
           /\ result[1] = Thrown("updateRelease failed")
           /\ retries[1] = config.maxRetries - Len(FailedCalls("createRelease"))
           /\ Len(OpCalls("updateRelease")) = 1
           /\ OpCalls("createRelease") = <<>>
           /\ releases = releases0

C16_Witness ==
    /\ pc[1] = "done"
    /\ result[1] = Thrown("updateRelease failed")
    /\ calls[Len(calls)].op = "updateRelease"
    /\ calls[Len(calls)].status = "error"
    /\ config.maxRetries = 3
    /\ retries[1] = 3

---------------------------------------------------------------------------
(* C17: two concurrent reconcilers of one tag (SpecConc) *)

CallsOf(p, op, status) ==
    SelectSeq(calls, LAMBDA c : c.proc = p /\ c.op = op /\ c.status = status)

\* C17: in every interleaving of two reconcilers of the same tag at most one
\* release carries the tag; when both are over both have returned that
\* release, and a reconciler whose createRelease was rejected has then looked
\* the release up, updated it once and returned the id of the other's release.
C17_ConcurrentCreate ==
    /\ Len(CarryingTag(releases, TheTag)) <= 1
    /\ (\A p \in Procs : pc[p] = "done")
       => /\ Len(CarryingTag(releases, TheTag)) = 1
          /\ \A p \in Procs :
                /\ result[p].kind = "release"
                /\ result[p].release.id = Head(CarryingTag(releases, TheTag)).id
                /\ retries[p] >= 1
                /\ CallsOf(p, "createRelease", "rejected") # <<>>
                   => /\ Len(CallsOf(p, "createRelease", "rejected")) = 1
                      /\ CallsOf(p, "createRelease", "ok") = <<>>
                      /\ Len(CallsOf(p, "getReleaseByTag", "ok")) = 1
                      /\ Len(CallsOf(p, "updateRelease", "ok")) = 1
                      /\ retries[p] = config.maxRetries - 1
                      /\ \E q \in Procs \ {p} :
                            /\ Len(CallsOf(q, "createRelease", "ok")) = 1
                            /\ result[q].release.id = result[p].release.id

\* the race: both lookups answered 404, 1 created, 2 was rejected and updated
C17_Witness ==
    /\ \A p \in Procs : pc[p] = "done"
    /\ CallsOf(1, "getReleaseByTag", "404") # <<>>
    /\ CallsOf(2, "getReleaseByTag", "404") # <<>>
    /\ CallsOf(1, "createRelease", "ok") # <<>>
    /\ CallsOf(2, "createRelease", "rejected") # <<>>
    /\ CallsOf(2, "updateRelease", "ok") # <<>>
    /\ config.maxRetries = 2
    /\ result[2] = Returned(Head(CarryingTag(releases, TheTag)))
    /\ result[1].release.id = result[2].release.id

---------------------------------------------------------------------------
(* C18: termination and the bound on calls (SpecLive) *)

Max0(n) == IF n > 0 THEN n ELSE 0

RetryBound ==
    /\ Len(OpCalls("createRelease")) <= Max0(config.maxRetries)
    /\ Len(OpCalls("getReleaseByTag")) <= Max0(config.maxRetries)
    /\ (config.maxRetries <= 0 /\ pc[1] = "done")
       => calls = <<>> /\ result[1] = Thrown(TooManyRetries)

\* C18: whatever succeeds or fails, a run issues at most max(maxRetries, 0)
\* createRelease calls and at most max(maxRetries, 0) getReleaseByTag calls,
\* a run with maxRetries <= 0 ends with 'Too many retries.' and no client
\* call, and every run whose calls all return comes to an end.
C18_Terminates == []RetryBound /\ <>(pc[1] = "done")

\* the budget used up: maxRetries lookups and maxRetries creations
C18_Witness ==
    /\ pc[1] = "done"
    /\ config.maxRetries = 3
    /\ Len(OpCalls("createRelease")) = 3
    /\ Len(OpCalls("getReleaseByTag")) = 3
    /\ result[1] = Thrown(TooManyRetries)

---------------------------------------------------------------------------
(* C19, C20: what a run does to the release (Spec) *)

\* the calls the Releaser interface offers, and the pause
ClientOps ==
    {"allReleases", "getReleaseByTag", "createRelease", "updateRelease",
     "deleteRef", "createRef", "sleep"}

\* C19: in one run, retries included, updateRelease is issued at most once, at
\* most one createRelease or updateRelease succeeds, no updateRelease follows a
\* successful createRelease, no createRelease follows an updateRelease, and
\* every release of the repository is still there (no call deletes one).
C19_OneMutation ==
    /\ Len(OpCalls("updateRelease")) <= 1
    /\ Len(OkCalls("createRelease")) + Len(OkCalls("updateRelease")) <= 1
    /\ \A i, j \in DOMAIN calls :
          i < j => /\ ~(/\ calls[i].op = "createRelease" /\ calls[i].status = "ok"
                        /\ calls[j].op = "updateRelease")
                   /\ ~(calls[i].op = "updateRelease" /\ calls[j].op = "createRelease")
    /\ \A i \in DOMAIN calls : calls[i].op \in ClientOps
    /\ Ids(releases0) \subseteq Ids(releases)
    /\ Len(releases) = Len(releases0) + Len(OkCalls("createRelease"))

\* a run that updated, after the tag ref rewrite
C19_Witness ==
    /\ pc[1] = "done"
    /\ Len(OkCalls("updateRelease")) = 1
    /\ OkCalls("deleteRef") # <<>>
    /\ Len(releases0) = 2
    /\ Ids(releases) = Ids(releases0)
    /\ releases # releases0
    /\ result[1].kind = "release"

\* C20: a failed deleteRef or createRef is the last call of the run: the run is
\* over with that error, no updateRelease was issued (nor createRef after a
\* failed deleteRef; a failed createRef follows the successful deleteRef), no
\* retry was made and the releases are as they were.
C20_RefErrorAborts ==
    \A i \in DOMAIN calls :
        (calls[i].op \in {"deleteRef", "createRef"} /\ calls[i].status = "error")
        => /\ i = Len(calls)
           /\ pc[1] = "done"
           /\ result[1] = Thrown(calls[i].op \o " failed")
           /\ OpCalls("updateRelease") = <<>>
           /\ OpCalls("createRelease") = <<>>
           /\ retries[1] = config.maxRetries
           /\ releases = releases0
           /\ calls[i].op = "deleteRef" => OpCalls("createRef") = <<>>
           /\ calls[i].op = "createRef"
              => /\ i > 1
                 /\ calls[i - 1].op = "deleteRef"
                 /\ calls[i - 1].status = "ok"
                 /\ tagRef = ""

\* createRef fails after deleteRef succeeded
C20_Witness ==
    /\ pc[1] = "done"
    /\ config.input_update_tag = True
    /\ OkCalls("deleteRef") # <<>>
    /\ calls[Len(calls)].op = "createRef"
    /\ calls[Len(calls)].status = "error"
    /\ result[1] = Thrown("createRef failed")
    /\ releases = releases0

====
